---- MODULE Spec2Model ----
(***************************************************************************)
(* A model of the TickTick MCP server (src/src/ticktick-client.ts): the    *)
(* date classifier (isTaskDueToday, isTaskOverdue), the display normalizer *)
(* (enhanceTaskForDisplay), the session manager of TickTickClient and the  *)
(* tool handler of TickTickMCPServer with its gateway operations.          *)
(*                                                                         *)
(* Two specifications share the variables:                                 *)
(*   ClassifySpec  draws a task, a reference instant and an offset and     *)
(*                 applies the two classifiers (pure functions);           *)
(*   Spec          runs concurrent tool invocations against one client,    *)
(*                 one action per continuation between two awaits.         *)
(***************************************************************************)
EXTENDS Integers, Sequences, FiniteSets, TLC

VARIABLES
    ctask,          \* the task given to the classifiers
    cnow,           \* the reference instant of the classifiers
    coff,           \* the offset of the last isTaskOverdue call
    cres,           \* the classifiers' results so far
    config,         \* process.env: accessToken, username, password
    ticktickClient, \* TickTickMCPServer.ticktickClient is constructed
    sessionId,      \* TickTickClient.sessionId
    authHeader,     \* client.defaults.headers.common['Authorization']
    inv,            \* the tool invocations in progress, one record each
    calls,          \* the number of tool invocations started
    signonRequests  \* the number of POST /user/signon requests sent

cvars == <<ctask, cnow, coff, cres>>

svars == <<config, ticktickClient, sessionId, authHeader, inv, calls, signonRequests>>

vars == <<ctask, cnow, coff, cres, config, ticktickClient, sessionId,
          authHeader, inv, calls, signonRequests>>


(***************************************************************************)
(* Dates.  A JavaScript time value is a number of milliseconds since the   *)
(* epoch; it is kept here as a pair (day, ms) with                         *)
(* time = day * DayMs + ms and 0 <= ms < DayMs, so that the arithmetic     *)
(* stays within the model checker's integers.  An Invalid Date has valid = FALSE.*)
(***************************************************************************)

\* 24 * 60 * 60 * 1000, the "Add 1 day" constant
DayMs == 86400000

\* The default of the timezoneOffsetHours parameter
DefaultOffsetHours == 8

NaNDate == [valid |-> FALSE, day |-> 0, ms |-> 0]

MkDate(d, m) == [valid |-> TRUE, day |-> d, ms |-> m]

\* TimeClip of the Date constructor: |time| <= 8.64e15 ms = 100,000,000 days
InTimeRange(d, m) ==
    /\ d >= -100000000
    /\ \/ d < 100000000
       \/ d = 100000000 /\ m = 0

\* new Date(task.dueDate): a due date string that denotes an instant gives
\* that instant, any other string gives an Invalid Date
DateParse(s) ==
    IF s.kind = "date" /\ InTimeRange(s.day, s.ms)
    THEN MkDate(s.day, s.ms)
    ELSE NaNDate

\* new Date(date.getTime() + ms)
AddMs(date, ms) ==
    IF ~date.valid
    THEN NaNDate
    ELSE LET t == date.ms + ms
             d == date.day + (t \div DayMs)
             m == t % DayMs
         IN  IF InTimeRange(d, m) THEN MkDate(d, m) ELSE NaNDate

\* The civil date (year, month, day of month) of a day number, proleptic
\* Gregorian calendar, as Date.prototype.toISOString computes it in UTC
CivilFromDays(days) ==
    LET z   == days + 719468
        era == z \div 146097
        doe == z - era * 146097
        yoe == (doe - (doe \div 1460) + (doe \div 36524) - (doe \div 146096)) \div 365
        doy == doe - (365 * yoe + (yoe \div 4) - (yoe \div 100))
        mp  == (5 * doy + 2) \div 153
        dd  == doy - ((153 * mp + 2) \div 5) + 1
        mm  == IF mp < 10 THEN mp + 3 ELSE mp - 9
        yy  == yoe + era * 400 + (IF mm <= 2 THEN 1 ELSE 0)
    IN  [y |-> yy, m |-> mm, d |-> dd]

\* Character codes (UTF-16 code units) of the characters of an ISO date
Digit(n) == 48 + n

Abs(n) == IF n < 0 THEN -n ELSE n

\* The digits of n, zero-padded to width w, most significant first
Digits(n, w) ==
    [i \in 1..w |-> Digit((n \div (10 ^ (w - i))) % 10)]

\* date.toISOString().split('T')[0] of a valid date: "YYYY-MM-DD" for the
\* years 0..9999, and the expanded form "+YYYYYY-MM-DD" / "-YYYYYY-MM-DD"
\* outside them
IsoDateStr(date) ==
    LET c    == CivilFromDays(date.day)
        year == IF c.y >= 0 /\ c.y <= 9999
                THEN Digits(c.y, 4)
                ELSE <<(IF c.y < 0 THEN 45 ELSE 43)>> \o Digits(Abs(c.y), 6)
    IN  year \o <<45>> \o Digits(c.m, 2) \o <<45>> \o Digits(c.d, 2)

\* a < b on two strings: the comparison by code units of JavaScript
StrLess(a, b) ==
    \E k \in 1..(Len(b)) :
        /\ \A j \in 1..(k - 1) : j <= Len(a) /\ a[j] = b[j]
        /\ \/ k = Len(a) + 1
           \/ k <= Len(a) /\ a[k] < b[k]

\* a < b on two Date objects (by time value; false when either is NaN)
DateLess(a, b) ==
    /\ a.valid
    /\ b.valid
    /\ \/ a.day < b.day
       \/ a.day = b.day /\ a.ms < b.ms

(***************************************************************************)
(* Tasks.  completedTime is "absent" (undefined), "empty" (the empty       *)
(* string) or "set" (a timestamp string); dueDate.kind is "absent",        *)
(* "empty", "invalid" (a string that is no date) or "date".                *)
(***************************************************************************)

Truthy(field) == field \notin {"absent", "empty"}

NoDue == [kind |-> "absent", day |-> 0, ms |-> 0]

DueAt(d, m) == [kind |-> "date", day |-> d, ms |-> m]

NoPriority == [has |-> FALSE, val |-> 0]

Priority(n) == [has |-> TRUE, val |-> n]

Task(id, completed, due, allDay, prio) ==
    [id |-> id, completedTime |-> completed, dueDate |-> due,
     allDay |-> allDay, priority |-> prio]

(***************************************************************************)
(* The date classifier.  `now` is the value of new Date() read by the call.*)
(***************************************************************************)

\* isTaskDueToday comparing the due date itself, without the one-day shift
isTaskDueToday_NoShift(task, now) ==
    IF Truthy(task.completedTime) THEN FALSE
    ELSE IF ~Truthy(task.dueDate.kind) THEN FALSE
    ELSE LET dueDate == DateParse(task.dueDate)
         IN  IF ~dueDate.valid
             THEN FALSE
             ELSE IsoDateStr(dueDate) = IsoDateStr(now)

\* isTaskDueToday(task)
isTaskDueToday(task, now) ==
    IF Truthy(task.completedTime) THEN FALSE
    ELSE IF ~Truthy(task.dueDate.kind) THEN FALSE
    ELSE LET dueDate         == DateParse(task.dueDate)
             adjustedDueDate == AddMs(dueDate, DayMs)
         IN  IF ~adjustedDueDate.valid
             THEN FALSE  \* toISOString throws a RangeError: the catch branch
             ELSE IF task.allDay
                  THEN IsoDateStr(adjustedDueDate) = IsoDateStr(now)
                  ELSE IsoDateStr(adjustedDueDate) = IsoDateStr(now)

\* isTaskOverdue without the completedTime guard
isTaskOverdue_NoCompletedGuard(task, now, timezoneOffsetHours) ==
    IF ~Truthy(task.dueDate.kind) THEN FALSE
    ELSE LET adjustedDueDate == AddMs(DateParse(task.dueDate), DayMs)
         IN  IF task.allDay
             THEN IF ~adjustedDueDate.valid
                  THEN FALSE
                  ELSE StrLess(IsoDateStr(adjustedDueDate), IsoDateStr(now))
             ELSE DateLess(adjustedDueDate, now)

\* isTaskOverdue with the offset applied to the reference instant
isTaskOverdue_WithOffset(task, now, timezoneOffsetHours) ==
    IF Truthy(task.completedTime) THEN FALSE
    ELSE IF ~Truthy(task.dueDate.kind) THEN FALSE
    ELSE LET adjustedDueDate == AddMs(DateParse(task.dueDate), DayMs)
             local           == AddMs(now, timezoneOffsetHours * 3600000)
         IN  IF task.allDay
             THEN IF ~adjustedDueDate.valid
                  THEN FALSE
                  ELSE StrLess(IsoDateStr(adjustedDueDate), IsoDateStr(local))
             ELSE DateLess(adjustedDueDate, local)

\* isTaskOverdue whose catch branch answers true
isTaskOverdue_CatchTrue(task, now, timezoneOffsetHours) ==
    IF Truthy(task.completedTime) THEN FALSE
    ELSE IF ~Truthy(task.dueDate.kind) THEN FALSE
    ELSE LET adjustedDueDate == AddMs(DateParse(task.dueDate), DayMs)
         IN  IF task.allDay
             THEN IF ~adjustedDueDate.valid
                  THEN TRUE
                  ELSE StrLess(IsoDateStr(adjustedDueDate), IsoDateStr(now))
             ELSE DateLess(adjustedDueDate, now)

\* isTaskOverdue whose all-day branch compares with <= instead of <
isTaskOverdue_OrEqual(task, now, timezoneOffsetHours) ==
    IF Truthy(task.completedTime) THEN FALSE
    ELSE IF ~Truthy(task.dueDate.kind) THEN FALSE
    ELSE LET adjustedDueDate == AddMs(DateParse(task.dueDate), DayMs)
         IN  IF task.allDay
             THEN IF ~adjustedDueDate.valid
                  THEN FALSE
                  ELSE ~StrLess(IsoDateStr(now), IsoDateStr(adjustedDueDate))
             ELSE DateLess(adjustedDueDate, now)

\* isTaskOverdue(task, timezoneOffsetHours)
isTaskOverdue(task, now, timezoneOffsetHours) ==
    IF Truthy(task.completedTime) THEN FALSE
    ELSE IF ~Truthy(task.dueDate.kind) THEN FALSE
    ELSE LET dueDate         == DateParse(task.dueDate)
             adjustedDueDate == AddMs(dueDate, DayMs)
         IN  IF task.allDay
             THEN IF ~adjustedDueDate.valid
                  THEN FALSE  \* toISOString throws a RangeError: the catch branch
                  ELSE StrLess(IsoDateStr(adjustedDueDate), IsoDateStr(now))
             ELSE DateLess(adjustedDueDate, now)

(***************************************************************************)
(* The display normalizer.                                                 *)
(***************************************************************************)

\* The priority switch without its default branch's custom label
PriorityText_NoCustom(priority) ==
    IF ~priority.has THEN [label |-> "None", n |-> 0]
    ELSE IF priority.val = 1 THEN [label |-> "Low", n |-> 0]
    ELSE IF priority.val = 3 THEN [label |-> "Medium", n |-> 0]
    ELSE IF priority.val = 5 THEN [label |-> "High", n |-> 0]
    ELSE [label |-> "None", n |-> 0]

\* The priorityText of a priority: a label, and the number a custom label
\* shows, "Custom (n)"
PriorityText(priority) ==
    IF ~priority.has THEN [label |-> "None", n |-> 0]
    ELSE IF priority.val = 0 THEN [label |-> "None", n |-> 0]
    ELSE IF priority.val = 1 THEN [label |-> "Low", n |-> 0]
    ELSE IF priority.val = 3 THEN [label |-> "Medium", n |-> 0]
    ELSE IF priority.val = 5 THEN [label |-> "High", n |-> 0]
    ELSE [label |-> "Custom", n |-> priority.val]

\* A normalizer that also moves the due date one day on, as the classifiers
\* do
enhanceTaskForDisplay_ShiftsDueDate(task) ==
    [id |-> task.id, completedTime |-> task.completedTime,
     allDay |-> task.allDay, priority |-> task.priority,
     priorityText |-> PriorityText(task.priority),
     dueDate |-> IF task.dueDate.kind = "date"
                 THEN DueAt(task.dueDate.day + 1, task.dueDate.ms)
                 ELSE task.dueDate]

\* enhanceTaskForDisplay(task)
enhanceTaskForDisplay(task) ==
    [id |-> task.id, completedTime |-> task.completedTime,
     allDay |-> task.allDay, priority |-> task.priority,
     priorityText |-> PriorityText(task.priority),
     dueDate |-> task.dueDate]

\* tasks.map(task => enhanceTaskForDisplay(task))
EnhanceAll(tasks) == [k \in 1..Len(tasks) |-> enhanceTaskForDisplay(tasks[k])]

(***************************************************************************)
(* The remote service, as the server sees it: the project lists it may     *)
(* answer with, the tasks of each project and of the inbox, the tokens a   *)
(* sign-on may return.  Task "t3" is listed by project "B" and by the      *)
(* inbox routes.                                                           *)
(***************************************************************************)

NoToken == "none"

EnvToken == "envToken"

IssuedTokens == {"tokA", "tokB"}

RemoteT1 == Task("t1", "absent", DueAt(19730, 0), TRUE, Priority(1))

RemoteT2 == Task("t2", "set", DueAt(19730, 0), FALSE, Priority(0))

RemoteT3 == Task("t3", "absent", DueAt(19732, 43200000), FALSE, Priority(5))

RemoteT4 == Task("t4", "absent", NoDue, FALSE, Priority(7))

ProjectTasks(projectId) ==
    IF projectId = "A" THEN <<RemoteT1, RemoteT2>> ELSE <<RemoteT3>>

InboxTasks == <<RemoteT3, RemoteT4>>

ProjectLists == {<<"B", "A">>, <<>>}

\* new Date() at the time a list is filtered
ServerInstants == {MkDate(19733, 0), MkDate(19733, 43200001)}

(***************************************************************************)
(* The tool handler and the client.                                        *)
(***************************************************************************)

ListTools == {"get_tasks", "get_overdue_tasks", "get_todays_tasks"}

Tools ==
    ListTools \cup {"get_projects", "create_task", "update_task",
                    "delete_task", "complete_task", "get_task"}

\* The route of the one request of a gateway operation that sends one
RouteOf(tool) ==
    CASE tool \in ListTools      -> "GET /project/{id}/data"
      [] tool = "get_projects"   -> "GET /project"
      [] tool = "create_task"    -> "POST /task"
      [] tool = "update_task"    -> "POST /task/{id}"
      [] tool = "delete_task"    -> "DELETE /project/{id}/task/{id}"
      [] tool = "complete_task"  -> "POST /project/{id}/task/{id}/complete"
      [] tool = "get_task"       -> "GET /project/{id}/task/{id}"

\* The name of the gateway operation in its error message
OpOf(tool) ==
    CASE tool \in ListTools      -> "Failed to get tasks"
      [] tool = "get_projects"   -> "Failed to get projects"
      [] tool = "create_task"    -> "Failed to create task"
      [] tool = "update_task"    -> "Failed to update task"
      [] tool = "delete_task"    -> "Failed to delete task"
      [] tool = "complete_task"  -> "Failed to complete task"
      [] tool = "get_task"       -> "Failed to get task"

\* The arguments of a tool call that the handler reads: is projectId given,
\* is taskId given, is title given, and timezoneOffsetHours (0: not given)
ArgSets ==
    [projectId : BOOLEAN, taskId : BOOLEAN, title : BOOLEAN, tz : {0, -5}]

\* The arguments that tell two calls of the tool apart (the others are set
\* to one value, so that equal calls are one state)
ArgsFor(tool) ==
    {a \in ArgSets :
        /\ tool \notin {"update_task", "delete_task", "complete_task", "get_task"}
              => a.taskId
        /\ tool # "create_task" => a.title
        /\ tool = "get_projects" => a.projectId
        /\ tool \in {"update_task", "create_task"} => a.projectId
        /\ tool # "get_overdue_tasks" => a.tz = 0}

\* The required-argument checks with the identifier tools checking taskId
\* only
ArgsValid_TaskIdOnly(tool, a) ==
    CASE tool = "create_task" -> a.title
      [] tool \in {"update_task", "delete_task", "complete_task", "get_task"}
                              -> a.taskId
      [] OTHER                -> TRUE

\* The required-argument checks of the handler
ArgsValid(tool, a) ==
    CASE tool = "create_task" -> a.title
      [] tool = "update_task" -> a.taskId
      [] tool \in {"delete_task", "complete_task", "get_task"}
                              -> a.taskId /\ a.projectId
      [] OTHER                -> TRUE

\* args?.timezoneOffsetHours as number || 8
OffsetArg(a) == IF a.tz = 0 THEN DefaultOffsetHours ELSE a.tz

NoReq == [route |-> "none", bearer |-> NoToken]

NoError ==
    [code |-> "none", kind |-> "none", ops |-> <<>>, cause |-> "none",
     detail |-> {}]

\* error.message of the error axios rejects with: "Request failed with status
\* code N" for an HTTP error response, the transport's message otherwise
AxiosMessage(cause) == IF cause = "http" THEN {"status"} ELSE {"message"}

\* The catch of getTasks, getTasksRaw and authenticate: what its message
\* holds of an axios error with a response (status, statusText and the body
\* as JSON), and of any other error (its message)
ResponseCatch(cause) ==
    IF cause = "http" THEN {"status", "statusText", "body"}
    ELSE AxiosMessage(cause)

\* What the message of the error keeps of the failed request, by the catch
\* that wrote it: the catch of getTasks around a failed request of its own,
\* the catch of another operation (error.message only, also around
\* getProjects inside getTasks, whose error has no response any more), and
\* the catch of authenticate, which also catches the Error('... No token
\* received') its own try throws
MessageDetail(kind, ops, cause) ==
    CASE kind = "remote" /\ ops = <<"Failed to get tasks">> -> ResponseCatch(cause)
      [] kind = "remote"                                    -> AxiosMessage(cause)
      [] kind = "auth" /\ cause = "noToken"                 -> {}
      [] kind = "auth"                                      -> ResponseCatch(cause)
      [] OTHER                                              -> {}

\* McpError(ErrorCode.InternalError, `Error executing tool ...`) of the
\* handler's catch, around an error of the given kind; ops are the operation
\* prefixes of its message, outermost first, and cause is the failure below
ToolError(kind, ops, cause) ==
    [code |-> "InternalError", kind |-> kind, ops |-> ops, cause |-> cause,
     detail |-> MessageDetail(kind, ops, cause)]

IdleInv ==
    [pc |-> "idle", tool |-> "none", hasProject |-> FALSE,
     hasTaskId |-> TRUE, hasTitle |-> TRUE, tz |-> DefaultOffsetHours,
     stage |-> "op", pending |-> NoReq, signons |-> 0,
     projects |-> <<>>, idx |-> 0, allTasks |-> <<>>, warnings |-> <<>>,
     replies |-> <<>>, inbox |-> "none",
     outcome |-> "none", error |-> NoError, result |-> <<>>]

\* client.get / client.post / client.delete: the request leaves with the
\* Authorization header the client's defaults hold at this moment
Send(rec, pc, route, hdr) ==
    [rec EXCEPT !.pc = pc, !.pending = [route |-> route, bearer |-> hdr],
                !.signons = IF route = "POST /user/signon" THEN @ + 1 ELSE @]

\* The invocation ends with an error, which the handler's catch wraps
Fail(rec, kind, ops, cause) ==
    [rec EXCEPT !.pc = "done", !.pending = NoReq, !.outcome = "error",
                !.error = ToolError(kind, ops, cause)]

\* The invocation ends with a result
Succeed(rec, result) ==
    [rec EXCEPT !.pc = "done", !.pending = NoReq, !.outcome = "ok",
                !.result = result]

\* ensureAuthenticated without its sessionId check: signs on again whenever
\* username and password are configured
EnsureAuthenticated_AlwaysResolve(sid, hdr, cfg) ==
    IF cfg.accessToken # NoToken
    THEN [do |-> "ready", sid |-> cfg.accessToken, hdr |-> cfg.accessToken]
    ELSE IF cfg.username /\ cfg.password
    THEN [do |-> "signon", sid |-> sid, hdr |-> hdr]
    ELSE [do |-> "configError", sid |-> sid, hdr |-> hdr]

\* ensureAuthenticated that never signs on: without a token it reports a
\* configuration error
EnsureAuthenticated_NoSignon(sid, hdr, cfg) ==
    IF sid # NoToken THEN [do |-> "ready", sid |-> sid, hdr |-> hdr]
    ELSE IF cfg.accessToken # NoToken
    THEN [do |-> "ready", sid |-> cfg.accessToken, hdr |-> cfg.accessToken]
    ELSE [do |-> "configError", sid |-> sid, hdr |-> hdr]

\* ensureAuthenticated that returns at once, whatever the session is
EnsureAuthenticated_Skip(sid, hdr, cfg) ==
    [do |-> "ready", sid |-> sid, hdr |-> hdr]

\* ensureAuthenticated(), up to its await: what it does, and the sessionId
\* and Authorization header it leaves
EnsureAuthenticated(sid, hdr, cfg) ==
    IF sid # NoToken THEN [do |-> "ready", sid |-> sid, hdr |-> hdr]
    ELSE IF cfg.accessToken # NoToken
    THEN [do |-> "ready", sid |-> cfg.accessToken, hdr |-> cfg.accessToken]
    ELSE IF cfg.username /\ cfg.password
    THEN [do |-> "signon", sid |-> sid, hdr |-> hdr]
    ELSE [do |-> "configError", sid |-> sid, hdr |-> hdr]

\* The effect of a continuation: the invocation's record, the sessionId and
\* the Authorization header it leaves
Effect(rec, sid, hdr) == [rec |-> rec, sid |-> sid, hdr |-> hdr]

\* await this.ensureAuthenticated() at the head of a gateway operation: what
\* ensureAuthenticated does and the effect of it; the operation goes on when
\* it is "ready", awaits the sign-on, or ends with the configuration error
Auth(rec, sid, hdr, cfg, stage, ops) ==
    LET a == EnsureAuthenticated(sid, hdr, cfg)
    IN  [do  |-> a.do,
         eff |-> CASE a.do = "ready"  -> Effect(rec, a.sid, a.hdr)
                   [] a.do = "signon" ->
                         Effect(Send([rec EXCEPT !.stage = stage], "signon",
                                     "POST /user/signon", a.hdr), a.sid, a.hdr)
                   [] OTHER           ->
                         Effect(Fail(rec, "config", ops, "noCredential"),
                                a.sid, a.hdr)]

\* getProjects() after its ensureAuthenticated: GET /project
GetProjectsBody(rec, sid, hdr) ==
    Effect(Send(rec, IF rec.tool = "get_projects" THEN "single" ELSE "projects",
                "GET /project", hdr), sid, hdr)

\* getTasks / getTasksRaw after their ensureAuthenticated: one project's
\* data, or getProjects() first, which starts with ensureAuthenticated again
GetTasksBody(rec, sid, hdr) ==
    IF rec.hasProject
    THEN Effect(Send(rec, "single", RouteOf(rec.tool), hdr), sid, hdr)
    ELSE LET r == Auth(rec, sid, hdr, config, "getProjects", <<OpOf(rec.tool)>>)
         IN  IF r.do = "ready"
             THEN GetProjectsBody(r.eff.rec, r.eff.sid, r.eff.hdr)
             ELSE r.eff

\* The other gateway operations after their ensureAuthenticated: one request
SingleBody(rec, sid, hdr) ==
    Effect(Send(rec, "single", RouteOf(rec.tool), hdr), sid, hdr)

\* The gateway operation of the tool after its ensureAuthenticated
OpBody(rec, sid, hdr) ==
    CASE rec.tool \in ListTools    -> GetTasksBody(rec, sid, hdr)
      [] rec.tool = "get_projects" -> GetProjectsBody(rec, sid, hdr)
      [] OTHER                     -> SingleBody(rec, sid, hdr)

\* The gateway operation of the tool, from its first line
GatewayOp(rec, sid, hdr) ==
    LET r == Auth(rec, sid, hdr, config, "op", <<>>)
    IN  IF r.do = "ready"
        THEN OpBody(r.eff.rec, r.eff.sid, r.eff.hdr)
        ELSE r.eff

\* The operation goes on after the sign-on it awaited
AfterSignon(rec, sid, hdr) ==
    IF rec.stage = "getProjects"
    THEN GetProjectsBody(rec, sid, hdr)
    ELSE OpBody(rec, sid, hdr)

\* What a list tool returns from the tasks it fetched
ListResult(rec, tasks, now) ==
    CASE rec.tool = "get_overdue_tasks" ->
            EnhanceAll(SelectSeq(tasks, LAMBDA t : isTaskOverdue(t, now, rec.tz)))
      [] rec.tool = "get_todays_tasks"  ->
            EnhanceAll(SelectSeq(tasks, LAMBDA t : isTaskDueToday(t, now)))
      [] OTHER                          ->
            EnhanceAll(tasks)

\* The aggregate loop: the next project's data, or the inbox after the last
NextFetch(rec, hdr) ==
    IF rec.idx <= Len(rec.projects)
    THEN Send(rec, "projectTasks", "GET /project/{id}/data", hdr)
    ELSE Send(rec, "inboxPrimary", "GET /project/inbox/data", hdr)

(***************************************************************************)
(* Inputs of the classifier specification.                                 *)
(***************************************************************************)

\* 2024-01-10, as a day number
BaseDay == 19732

\* The reference instants span BaseDay .. BaseDay + SpanDays
SpanDays == 2

MsOfDay == {0, 43200000, DayMs - 1}

RefDays == BaseDay..(BaseDay + SpanDays)

\* Due days around the reference days, and three far ones: a day of the year
\* -1, 9999-12-31 (one day before the year 10000) and the last day a time
\* value can hold
DueDays == ((BaseDay - 2)..(BaseDay + SpanDays)) \cup {-719530, 2932896, 100000000}

DueDates ==
    {NoDue, [kind |-> "empty", day |-> 0, ms |-> 0],
     [kind |-> "invalid", day |-> 0, ms |-> 0]}
    \cup {DueAt(d, m) : d \in DueDays, m \in MsOfDay}

ClassifyTasks ==
    {Task("t", c, due, a, NoPriority) :
        c \in {"absent", "empty", "set"}, due \in DueDates, a \in BOOLEAN}

RefInstants == {MkDate(d, m) : d \in RefDays, m \in MsOfDay}

Offsets == {0, DefaultOffsetHours, -5}

ClassifyInit ==
    /\ ctask \in ClassifyTasks
    /\ cnow \in RefInstants
    /\ coff = DefaultOffsetHours
    /\ cres = [doneToday |-> FALSE, today |-> FALSE,
               doneOver |-> FALSE, over |-> FALSE]
    /\ config = [accessToken |-> NoToken, username |-> FALSE, password |-> FALSE]
    /\ ticktickClient = FALSE
    /\ sessionId = NoToken
    /\ authHeader = NoToken
    /\ inv = <<>>
    /\ calls = 0
    /\ signonRequests = 0

ClassifyDueToday ==
    /\ ~cres.doneToday
    /\ cres' = [cres EXCEPT !.doneToday = TRUE,
                            !.today = isTaskDueToday(ctask, cnow)]
    /\ UNCHANGED <<ctask, cnow, coff, svars>>

ClassifyOverdue ==
    \E tz \in Offsets :
        /\ ~cres.doneOver \/ tz # coff
        /\ coff' = tz
        /\ cres' = [cres EXCEPT !.doneOver = TRUE,
                                !.over = isTaskOverdue(ctask, cnow, tz)]
        /\ UNCHANGED <<ctask, cnow, svars>>

\* The reference instants and two far ones the clock can reach later:
\* the last millisecond of 9999-12-31 and the first of the year 10000
ClockInstants ==
    RefInstants \cup {MkDate(2932896, DayMs - 1), MkDate(2932897, 0)}

\* isTaskOverdue on the same task when the clock has moved on: new Date()
\* gives a later instant
ClassifyOverdueLater ==
    \E t \in ClockInstants :
        /\ cres.doneOver
        /\ DateLess(cnow, t)
        /\ cnow' = t
        /\ cres' = [doneToday |-> FALSE, today |-> FALSE,
                    doneOver |-> TRUE, over |-> isTaskOverdue(ctask, t, coff)]
        /\ UNCHANGED <<ctask, coff, svars>>

ClassifyNext == ClassifyDueToday \/ ClassifyOverdue \/ ClassifyOverdueLater

ClassifySpec == ClassifyInit /\ [][ClassifyNext]_vars

(***************************************************************************)
(* Inputs of the display specification: the normalizer and the list tools  *)
(* on one drawn task.                                                      *)
(***************************************************************************)

\* Priorities run from -MaxPriority to MaxPriority
MaxPriority == 8

Priorities == {NoPriority} \cup {Priority(n) : n \in (-MaxPriority)..MaxPriority}

\* A task that already carries a priorityText, as the output of the
\* normalizer does
Shown(task, text) ==
    [id |-> task.id, completedTime |-> task.completedTime,
     allDay |-> task.allDay, priority |-> task.priority,
     priorityText |-> text, dueDate |-> task.dueDate]

\* Tasks as the remote service sends them, and the same tasks carrying a
\* priorityText that need not fit their priority; at the reference instant
\* the two due dates are overdue and due today
DisplayTasks ==
    LET plain == {Task("t", c, due, a, p) :
                     c \in {"absent", "set"},
                     due \in {NoDue, DueAt(BaseDay - 2, 0), DueAt(BaseDay - 1, 0)},
                     a \in BOOLEAN, p \in Priorities}
    IN  plain \cup {Shown(t, [label |-> "Low", n |-> 0]) : t \in plain}

DisplayInit ==
    /\ ctask \in DisplayTasks
    /\ cnow = MkDate(BaseDay, 0)
    /\ coff = DefaultOffsetHours
    /\ cres = [once |-> <<>>, twice |-> <<>>, tool |-> "none", listed |-> <<>>]
    /\ config = [accessToken |-> NoToken, username |-> FALSE, password |-> FALSE]
    /\ ticktickClient = FALSE
    /\ sessionId = NoToken
    /\ authHeader = NoToken
    /\ inv = <<>>
    /\ calls = 0
    /\ signonRequests = 0

\* enhanceTaskForDisplay(task)
DisplayEnhance ==
    /\ cres.once = <<>>
    /\ cres' = [cres EXCEPT !.once = <<enhanceTaskForDisplay(ctask)>>]
    /\ UNCHANGED <<ctask, cnow, coff, svars>>

\* enhanceTaskForDisplay on its own output
DisplayEnhanceAgain ==
    /\ cres.once # <<>>
    /\ cres.twice = <<>>
    /\ cres' = [cres EXCEPT !.twice = <<enhanceTaskForDisplay(cres.once[1])>>]
    /\ UNCHANGED <<ctask, cnow, coff, svars>>

\* A list tool on a fetched list that holds the task
DisplayList ==
    \E tool \in ListTools :
        /\ cres.tool # tool
        /\ cres' = [cres EXCEPT
                       !.tool = tool,
                       !.listed = ListResult([tool |-> tool, tz |-> coff],
                                             <<ctask, RemoteT3>>, cnow)]
        /\ UNCHANGED <<ctask, cnow, coff, svars>>

DisplayNext == DisplayEnhance \/ DisplayEnhanceAgain \/ DisplayList

DisplaySpec == DisplayInit /\ [][DisplayNext]_vars

(***************************************************************************)
(* The server: concurrent tool invocations on one client.  An action is    *)
(* one continuation of an invocation, from the arrival of the response it  *)
(* awaits to its next request or its end.                                  *)
(***************************************************************************)

\* The tool invocations a run starts
MaxCalls == 2

\* Two tool invocations can be in progress at once
Invocations == {1, 2}

\* process.env: without a token every combination of username and password,
\* with a token both of them or neither
Configs ==
    {c \in [accessToken : {NoToken, EnvToken}, username : BOOLEAN, password : BOOLEAN] :
        c.accessToken # NoToken => c.username = c.password}

\* The ways a request fails: an HTTP error response, no response at all
Failures == {"http", "network"}

\* A constructor that does not adopt the configured token
NewClient_NoAdopt(cfg) == [sid |-> NoToken, hdr |-> NoToken]

\* new TickTickClient(config): the sessionId and the Authorization header
NewClient(cfg) ==
    IF cfg.accessToken # NoToken
    THEN [sid |-> cfg.accessToken, hdr |-> cfg.accessToken]
    ELSE [sid |-> NoToken, hdr |-> NoToken]

\* The check of ensureClientInitialized: is there a credential to use
Usable(cfg) == ~(cfg.accessToken = NoToken /\ (~cfg.username \/ ~cfg.password))

ServerStart ==
    /\ ticktickClient = FALSE
    /\ sessionId = NoToken
    /\ authHeader = NoToken
    /\ inv = [i \in Invocations |-> IdleInv]
    /\ calls = 0
    /\ signonRequests = 0

ClassifierIdle ==
    /\ ctask = Task("t", "absent", NoDue, FALSE, NoPriority)
    /\ cnow = MkDate(BaseDay, 0)
    /\ coff = DefaultOffsetHours
    /\ cres = [doneToday |-> FALSE, today |-> FALSE,
               doneOver |-> FALSE, over |-> FALSE]

Init ==
    /\ config \in Configs
    /\ ServerStart
    /\ ClassifierIdle

\* The invocation's record and the session are written, and a sign-on
\* request the continuation sent is counted
Commit(i, eff) ==
    /\ inv' = [inv EXCEPT ![i] = eff.rec]
    /\ sessionId' = eff.sid
    /\ authHeader' = eff.hdr
    /\ signonRequests' =
          IF eff.rec.pending.route = "POST /user/signon"
          THEN signonRequests + 1 ELSE signonRequests

\* The CallToolRequestSchema handler, up to its first await of the network
CallTool(i) ==
    \E tool \in Tools :
      \E a \in ArgsFor(tool) :
        /\ inv[i].pc = "idle"
        /\ calls < MaxCalls
        /\ calls' = calls + 1
        /\ LET rec == [IdleInv EXCEPT !.tool = tool,
                                      !.hasProject = a.projectId,
                                      !.hasTaskId = a.taskId,
                                      !.hasTitle = a.title,
                                      !.tz = OffsetArg(a)]
               new == IF ticktickClient
                      THEN [sid |-> sessionId, hdr |-> authHeader]
                      ELSE NewClient(config)
           IN  IF ~ticktickClient /\ ~Usable(config)
               THEN /\ Commit(i, Effect(Fail(rec, "config", <<>>, "noCredential"),
                                        sessionId, authHeader))
                    /\ UNCHANGED ticktickClient
               ELSE /\ ticktickClient' = TRUE
                    /\ IF ~ArgsValid(tool, a)
                       THEN Commit(i, Effect(Fail(rec, "validation", <<>>, "missingArgument"),
                                             new.sid, new.hdr))
                       ELSE Commit(i, GatewayOp(rec, new.sid, new.hdr))
        /\ UNCHANGED <<config, cvars>>

\* The prefixes of the message authenticate throws: its catch prefixes the
\* error of the request, and prefixes again the error its own try threw for
\* a response without a token
AuthOps(cause) ==
    IF cause = "noToken"
    THEN <<"Authentication failed", "Authentication failed">>
    ELSE <<"Authentication failed">>

\* authenticate that installs the Authorization header before it looks for
\* the token: a response without a token leaves "Bearer undefined" installed
SignonResponse_InstallsBeforeCheck(i) ==
    /\ inv[i].pc = "signon"
    /\ LET rec == [inv[i] EXCEPT !.pending = NoReq]
           ops == (IF rec.stage = "getProjects" THEN <<OpOf(rec.tool)>> ELSE <<>>)
       IN  \/ \E t \in IssuedTokens : Commit(i, AfterSignon(rec, t, t))
           \/ \E cause \in Failures :
                 Commit(i, Effect(Fail(rec, "auth", ops \o AuthOps(cause), cause),
                                  sessionId, authHeader))
           \/ Commit(i, Effect(Fail(rec, "auth", ops \o AuthOps("noToken"), "noToken"),
                               sessionId, "undefined"))
    /\ UNCHANGED <<config, ticktickClient, calls, cvars>>

\* authenticate() after its await of POST /user/signon
SignonResponse(i) ==
    /\ inv[i].pc = "signon"
    /\ LET rec == [inv[i] EXCEPT !.pending = NoReq]
       IN  \/ \E t \in IssuedTokens : Commit(i, AfterSignon(rec, t, t))
           \/ \E cause \in Failures \cup {"noToken"} :
                 Commit(i, Effect(Fail(rec, "auth",
                                       (IF rec.stage = "getProjects"
                                        THEN <<OpOf(rec.tool)>> ELSE <<>>)
                                       \o AuthOps(cause),
                                       cause),
                                  sessionId, authHeader))
    /\ UNCHANGED <<config, ticktickClient, calls, cvars>>

\* A gateway operation of one request, after its await
SingleResponse(i) ==
    /\ inv[i].pc = "single"
    /\ LET rec == [inv[i] EXCEPT !.pending = NoReq]
       IN  \/ \E now \in ServerInstants :
                 Commit(i, Effect(Succeed(rec,
                                    IF rec.tool \in ListTools
                                    THEN ListResult(rec, ProjectTasks("A"), now)
                                    ELSE <<>>),
                                  sessionId, authHeader))
           \/ \E cause \in Failures :
                 Commit(i, Effect(Fail(rec, "remote", <<OpOf(rec.tool)>>, cause),
                                  sessionId, authHeader))
    /\ UNCHANGED <<config, ticktickClient, calls, cvars>>

\* getTasks with the tolerance of its loop extended to getProjects: a failed
\* project list is warned about and the fetch goes on with no project
ProjectsResponse_Tolerant(i) ==
    /\ inv[i].pc = "projects"
    /\ LET rec == [inv[i] EXCEPT !.pending = NoReq]
       IN  \/ \E list \in ProjectLists :
                 Commit(i, Effect(NextFetch([rec EXCEPT !.projects = list, !.idx = 1],
                                            authHeader),
                                  sessionId, authHeader))
           \/ Commit(i, Effect(NextFetch([rec EXCEPT !.warnings = <<"projects">>,
                                                     !.idx = 1], authHeader),
                               sessionId, authHeader))
    /\ UNCHANGED <<config, ticktickClient, calls, cvars>>

\* getTasks / getTasksRaw after the await of getProjects()
ProjectsResponse(i) ==
    /\ inv[i].pc = "projects"
    /\ LET rec == [inv[i] EXCEPT !.pending = NoReq]
       IN  \/ \E list \in ProjectLists :
                 Commit(i, Effect(NextFetch([rec EXCEPT !.projects = list, !.idx = 1],
                                            authHeader),
                                  sessionId, authHeader))
           \/ \E cause \in Failures :
                 Commit(i, Effect(Fail(rec, "remote",
                                       <<OpOf(rec.tool), "Failed to get projects">>, cause),
                                  sessionId, authHeader))
    /\ UNCHANGED <<config, ticktickClient, calls, cvars>>

\* The aggregate loop without its inner try/catch: a project's failure is
\* thrown to the catch of getTasks
ProjectTasksResponse_AbortOnFailure(i) ==
    /\ inv[i].pc = "projectTasks"
    /\ LET rec == [inv[i] EXCEPT !.pending = NoReq]
           p   == rec.projects[rec.idx]
       IN  \/ Commit(i, Effect(NextFetch([rec EXCEPT
                                   !.allTasks = @ \o ProjectTasks(p),
                                   !.replies = Append(@, TRUE),
                                   !.idx = @ + 1], authHeader),
                               sessionId, authHeader))
           \/ \E cause \in Failures :
                 Commit(i, Effect(Fail([rec EXCEPT !.replies = Append(@, FALSE)],
                                       "remote", <<OpOf(rec.tool)>>, cause),
                                  sessionId, authHeader))
    /\ UNCHANGED <<config, ticktickClient, calls, cvars>>

\* The aggregate loop after the await of one project's data
ProjectTasksResponse(i) ==
    /\ inv[i].pc = "projectTasks"
    /\ LET rec == [inv[i] EXCEPT !.pending = NoReq]
           p   == rec.projects[rec.idx]
       IN  \/ Commit(i, Effect(NextFetch([rec EXCEPT
                                   !.allTasks = @ \o ProjectTasks(p),
                                   !.replies = Append(@, TRUE),
                                   !.idx = @ + 1], authHeader),
                               sessionId, authHeader))
           \/ Commit(i, Effect(NextFetch([rec EXCEPT
                                   !.warnings = Append(@, p),
                                   !.replies = Append(@, FALSE),
                                   !.idx = @ + 1], authHeader),
                               sessionId, authHeader))
    /\ UNCHANGED <<config, ticktickClient, calls, cvars>>

\* The end of an aggregate fetch: the list the tool returns
Finish(rec, now) == Succeed(rec, ListResult(rec, rec.allTasks, now))

\* After the await of GET /project/inbox/data
InboxPrimaryResponse(i) ==
    /\ inv[i].pc = "inboxPrimary"
    /\ LET rec == [inv[i] EXCEPT !.pending = NoReq]
       IN  \/ \E now \in ServerInstants :
                 Commit(i, Effect(Finish([rec EXCEPT !.allTasks = @ \o InboxTasks,
                                                     !.inbox = "primary"], now),
                                  sessionId, authHeader))
           \/ Commit(i, Effect(Send([rec EXCEPT !.inbox = "primaryFailed"],
                                    "inboxSecondary",
                                    "GET /task?projectId=inbox", authHeader),
                               sessionId, authHeader))
    /\ UNCHANGED <<config, ticktickClient, calls, cvars>>

\* The inbox fallback without its inner try/catch: when the second route
\* fails too, the error is thrown to the catch of getTasks
InboxSecondaryResponse_Throws(i) ==
    /\ inv[i].pc = "inboxSecondary"
    /\ LET rec == [inv[i] EXCEPT !.pending = NoReq]
       IN  \/ \E now \in ServerInstants :
                 Commit(i, Effect(Finish([rec EXCEPT !.allTasks = @ \o InboxTasks,
                                                     !.inbox = "secondary"], now),
                                  sessionId, authHeader))
           \/ \E cause \in Failures :
                 Commit(i, Effect(Fail([rec EXCEPT !.inbox = "failed"],
                                       "remote", <<OpOf(rec.tool)>>, cause),
                                  sessionId, authHeader))
    /\ UNCHANGED <<config, ticktickClient, calls, cvars>>

\* After the await of GET /task?projectId=inbox
InboxSecondaryResponse(i) ==
    /\ inv[i].pc = "inboxSecondary"
    /\ LET rec == [inv[i] EXCEPT !.pending = NoReq]
       IN  \E now \in ServerInstants :
              \/ Commit(i, Effect(Finish([rec EXCEPT !.allTasks = @ \o InboxTasks,
                                                     !.inbox = "secondary"], now),
                                  sessionId, authHeader))
              \/ Commit(i, Effect(Finish([rec EXCEPT !.warnings = Append(@, "inbox"),
                                                     !.inbox = "failed"], now),
                                  sessionId, authHeader))
    /\ UNCHANGED <<config, ticktickClient, calls, cvars>>

\* The handler's result or error goes back to the caller
Return(i) ==
    /\ inv[i].pc = "done"
    /\ inv' = [inv EXCEPT ![i] = IdleInv]
    /\ UNCHANGED <<config, ticktickClient, sessionId, authHeader, calls,
                   signonRequests, cvars>>

Next ==
    \E i \in Invocations :
        \/ CallTool(i)
        \/ SignonResponse(i)
        \/ SingleResponse(i)
        \/ ProjectsResponse(i)
        \/ ProjectTasksResponse(i)
        \/ InboxPrimaryResponse(i)
        \/ InboxSecondaryResponse(i)
        \/ Return(i)

Spec == Init /\ [][Next]_vars

(***************************************************************************)
(* Properties of the session manager and the aggregator, checked under     *)
(* Spec.                                                                   *)
(***************************************************************************)

PasswordMode == config.accessToken = NoToken /\ config.username /\ config.password

\* The invocation has a project or task request in flight
DataRequest(rec) == rec.pending.route \notin {"none", "POST /user/signon"}

\* C5: the credential is resolved by the configuration alone.  With a token
\* configured it is the cached credential and no sign-on is ever sent, also
\* with username and password configured; with username and password only,
\* an invocation without a credential is in its sign-on and goes on only with
\* an issued token as the credential; with neither, every invocation fails
\* with the configuration error and no request is sent
C5_ResolvedByConfiguration ==
    /\ config.accessToken # NoToken =>
          /\ signonRequests = 0
          /\ ticktickClient => sessionId = config.accessToken
          /\ \A i \in Invocations : inv[i].error.kind \notin {"config", "auth"}
    /\ PasswordMode =>
          /\ sessionId \in IssuedTokens \cup {NoToken}
          /\ sessionId # NoToken => signonRequests >= 1
          /\ \A i \in Invocations :
                /\ inv[i].error.kind # "config"
                /\ (inv[i].pc \notin {"idle", "done"} /\ sessionId = NoToken)
                      => inv[i].pc = "signon"
                /\ DataRequest(inv[i]) => inv[i].pending.bearer \in IssuedTokens
                /\ inv[i].outcome = "ok" => sessionId \in IssuedTokens
    /\ ~Usable(config) =>
          /\ ~ticktickClient
          /\ sessionId = NoToken
          /\ signonRequests = 0
          /\ \A i \in Invocations :
                /\ inv[i].pending = NoReq
                /\ inv[i].pc \in {"idle", "done"}
                /\ inv[i].pc = "done" => inv[i].error.kind = "config"

\* C5 witness: with username and password only, one sign-on was sent and the
\* operation goes on with the token it returned
C5_Witness ==
    /\ PasswordMode
    /\ signonRequests = 1
    /\ sessionId = "tokB"
    /\ \E i \in Invocations :
          /\ inv[i].signons = 1
          /\ DataRequest(inv[i])
          /\ inv[i].pending.bearer = "tokB"

\* C6 as stated: once a credential is cached, no sign-on request is sent
\* any more and the cached credential keeps its value
C6_KeepsSameValue ==
    [][sessionId # NoToken =>
          (signonRequests' = signonRequests /\ sessionId' = sessionId)]_vars

\* C6, amended: once a credential is cached, no sign-on request is sent any
\* more, the credential is never cleared, also by failing requests, and an
\* invocation started afterwards sends its request with the cached credential
C6_ReusedByLaterCalls ==
    [][sessionId # NoToken =>
          /\ signonRequests' = signonRequests
          /\ sessionId' # NoToken
          /\ \A i \in Invocations :
                (inv[i].pc = "idle" /\ inv'[i].pending # NoReq) =>
                    /\ inv'[i].pending.route # "POST /user/signon"
                    /\ inv'[i].pending.bearer = sessionId]_vars

\* C6 witness: after one sign-on, an invocation that sent no sign-on is in
\* its aggregate loop with the cached credential, and another one has failed
\* on a remote error
C6_Witness ==
    /\ PasswordMode
    /\ signonRequests = 1
    /\ \E i, j \in Invocations :
          /\ inv[i].pc = "projectTasks"
          /\ inv[i].signons = 0
          /\ inv[i].pending.bearer = sessionId
          /\ inv[j].pc = "done"
          /\ inv[j].error.kind = "remote"

\* C7 as stated: the sign-on request is sent at most once in a run
C7_SignonAtMostOnce == signonRequests <= 1

\* C7, amended: an invocation sends the sign-on request at most once, and
\* only while the Authorization header is not set; so a run sends it at most
\* once per invocation
C7_SignonOncePerInvocation ==
    /\ signonRequests <= calls
    /\ \A i \in Invocations :
          /\ inv[i].signons <= 1
          /\ inv[i].pc = "signon" => inv[i].pending.bearer = NoToken

\* C7 witness: a sign-on failed, and a second invocation has sent the
\* sign-on request again
C7_Witness ==
    /\ signonRequests = 2
    /\ \E i, j \in Invocations :
          /\ inv[i].pc = "done"
          /\ inv[i].error.kind = "auth"
          /\ inv[j].pc = "signon"
          /\ inv[j].signons = 1

\* C8 as stated: once the cached credential is set, it never changes
C8_SingleAssignment ==
    [][sessionId # NoToken => sessionId' = sessionId]_vars

\* C8, amended: the cached credential is written only by the construction of
\* the client (the configured token, which then stays) and by the completion
\* of a sign-on that was sent while no credential was cached; it is written
\* together with the Authorization header, never cleared, and it changes
\* after it was set only when more than one sign-on was sent
C8_WrittenByResolutionOnly ==
    [][sessionId' # sessionId =>
          /\ sessionId' # NoToken
          /\ authHeader' = sessionId'
          /\ \/ /\ ~ticktickClient
                /\ ticktickClient'
                /\ sessionId' = config.accessToken
             \/ \E i \in Invocations :
                   /\ inv[i].pc = "signon"
                   /\ inv[i].pending.bearer = NoToken
                   /\ inv'[i].pc # "signon"
                   /\ sessionId' \in IssuedTokens
          /\ sessionId # NoToken => (PasswordMode /\ signonRequests >= 2)]_vars

\* C8 witness: two overlapping first calls have both signed on, and the
\* second token has replaced the first
C8_Witness ==
    /\ signonRequests = 2
    /\ sessionId = "tokB"
    /\ \E i, j \in Invocations :
          /\ i # j
          /\ inv[i].signons = 1
          /\ inv[j].signons = 1
          /\ DataRequest(inv[i])
          /\ inv[i].pending.bearer = "tokA"
          /\ DataRequest(inv[j])
          /\ inv[j].pending.bearer = "tokB"

\* C9: a project or task request is sent only with a cached credential, and
\* it carries the credential cached at that moment as its bearer token
C9_RequestsCarryCredential ==
    [][\A i \in Invocations :
          (inv'[i] # inv[i] /\ DataRequest(inv'[i])) =>
              /\ sessionId' # NoToken
              /\ inv'[i].pending.bearer = sessionId']_vars

\* C9 witness: a task is being created with the token a sign-on of the same
\* invocation returned
C9_Witness ==
    \E i \in Invocations :
        /\ inv[i].tool = "create_task"
        /\ inv[i].signons = 1
        /\ inv[i].pending = [route |-> "POST /task", bearer |-> "tokA"]
        /\ sessionId = "tokA"

\* The tasks of the projects that answered, in the order of the list
RECURSIVE FetchedTasks(_, _)
FetchedTasks(projects, replies) ==
    IF projects = <<>> \/ replies = <<>> THEN <<>>
    ELSE (IF Head(replies) THEN ProjectTasks(Head(projects)) ELSE <<>>)
         \o FetchedTasks(Tail(projects), Tail(replies))

\* The projects that did not answer, in the order of the list
RECURSIVE FailedProjects(_, _)
FailedProjects(projects, replies) ==
    IF projects = <<>> \/ replies = <<>> THEN <<>>
    ELSE (IF Head(replies) THEN <<>> ELSE <<Head(projects)>>)
         \o FailedProjects(Tail(projects), Tail(replies))

\* An aggregate fetch that has ended after its project list arrived
AggregateEnded(rec) ==
    /\ rec.pc = "done"
    /\ rec.tool \in ListTools
    /\ ~rec.hasProject
    /\ rec.idx >= 1

InboxPrimary == "GET /project/inbox/data"

InboxSecondary == "GET /task?projectId=inbox"

\* C11: the inbox is asked on its primary route first; the secondary route is
\* requested only by the continuation that saw the primary route fail, and a
\* primary answer ends the fetch without it; when both fail the fetch ends
\* without error, the inbox adds no task to the project tasks collected, one
\* warning is recorded and the tool returns its list of the collected tasks
C11_InboxFallback ==
    [][\A i \in Invocations :
          LET old == inv[i]
              new == inv'[i]
          IN  /\ (new # old /\ new.pending.route = InboxSecondary) =>
                    /\ old.pending.route = InboxPrimary
                    /\ new.inbox = "primaryFailed"
              /\ (new # old /\ old.pending.route = InboxPrimary) =>
                    \/ new.pending.route = InboxSecondary
                    \/ /\ new.inbox = "primary"
                       /\ new.pc = "done"
                       /\ new.pending = NoReq
              /\ (new # old /\ new.inbox = "failed") =>
                    /\ old.pending.route = InboxSecondary
                    /\ new.pc = "done"
                    /\ new.outcome = "ok"
                    /\ new.error = NoError
                    /\ new.allTasks = old.allTasks
                    /\ new.allTasks = FetchedTasks(new.projects, new.replies)
                    /\ new.warnings = Append(old.warnings, "inbox")
                    /\ \E now \in ServerInstants :
                          new.result = ListResult(new, new.allTasks, now)]_vars

\* C11 witness: both projects answered and both inbox routes failed:
\* get_tasks returns the three project tasks and there is one warning, for
\* the inbox
C11_Witness ==
    \E i \in Invocations :
        /\ inv[i].pc = "done"
        /\ inv[i].tool = "get_tasks"
        /\ inv[i].inbox = "failed"
        /\ inv[i].outcome = "ok"
        /\ inv[i].projects = <<"B", "A">>
        /\ inv[i].warnings = <<"inbox">>
        /\ [k \in 1..Len(inv[i].result) |-> inv[i].result[k].id]
              = <<"t3", "t1", "t2">>

\* The invocation lacks an argument its tool requires
LacksRequired(rec) ==
    \/ rec.tool = "create_task" /\ ~rec.hasTitle
    \/ rec.tool = "update_task" /\ ~rec.hasTaskId
    \/ /\ rec.tool \in {"delete_task", "complete_task", "get_task"}
       /\ ~(rec.hasTaskId /\ rec.hasProject)

\* C12: an invocation that lacks a required argument ends with an error in
\* the step that received it: it has no request pending and has sent no
\* sign-on, and the step adds no sign-on request, changes no credential and
\* leaves nothing for a later continuation of the invocation to send
C12_FailsBeforeAnyRequest ==
    [][\A i \in Invocations :
          LET old == inv[i]
              new == inv'[i]
          IN  (new # old /\ LacksRequired(new)) =>
                 /\ old.pc = "idle"
                 /\ new.pc = "done"
                 /\ new.outcome = "error"
                 /\ new.pending = NoReq
                 /\ new.signons = 0
                 /\ signonRequests' = signonRequests
                 /\ new.projects = <<>> /\ new.replies = <<>>
                 /\ new.inbox = "none"]_vars

\* C12 witness: delete_task came with a taskId and without a projectId, to a
\* server in password mode without a credential, and has ended with an error
\* while no sign-on request was ever sent
C12_Witness ==
    \E i \in Invocations :
        /\ inv[i].tool = "delete_task"
        /\ inv[i].hasTaskId /\ ~inv[i].hasProject
        /\ inv[i].pc = "done"
        /\ inv[i].outcome = "error"
        /\ PasswordMode
        /\ sessionId = NoToken
        /\ signonRequests = 0

\* C13: an invocation that lacks a required argument and has ended is
\* reported with the invalid-parameters error code
C13_ReportedAsInvalidParams ==
    \A i \in Invocations :
        (inv[i].pc = "done" /\ LacksRequired(inv[i]) /\ ticktickClient) =>
            inv[i].error.code = "InvalidParams"

\* The invocation ended on an HTTP error response to a project or task
\* request of its gateway operation
HttpFailure(rec) ==
    /\ rec.pc = "done"
    /\ rec.outcome = "error"
    /\ rec.error.kind = "remote"
    /\ rec.error.cause = "http"

\* C14: the error of an invocation whose gateway operation failed on an HTTP
\* error response carries the status code and the body of that response
C14_StatusAndBodySurfaced ==
    \A i \in Invocations :
        HttpFailure(inv[i]) => {"status", "body"} \subseteq inv[i].error.detail

\* The invocation ended on a sign-on that yielded no token
SignonFailure(rec) ==
    /\ rec.pc = "done"
    /\ rec.outcome = "error"
    /\ rec.error.kind = "auth"

\* C15: the error of a sign-on that yielded no token carries the status
\* code, the status text and the body of the response when there was one
\* (an HTTP error, or a success without a token), and the transport's
\* message when there was none
C15_AuthErrorCarriesDetail ==
    \A i \in Invocations :
        SignonFailure(inv[i]) =>
            IF inv[i].error.cause = "network"
            THEN "message" \in inv[i].error.detail
            ELSE {"status", "statusText", "body"} \subseteq inv[i].error.detail

\* C19: when the answer to the project list request of an aggregate fetch
\* is taken, either the list arrived and the fetch goes on with its first
\* request, or the invocation ends there with one error that names the
\* fetch and the project listing, with no result, no task collected and no
\* project or inbox request sent; an ended invocation sends nothing more
C19_EnumerationFailureAborts ==
    [][\A i \in Invocations :
          LET old == inv[i]
              new == inv'[i]
          IN  /\ (new # old /\ old.pending.route = "GET /project"
                            /\ old.tool \in ListTools) =>
                    \/ /\ new.outcome = "none"
                       /\ new.projects \in ProjectLists
                       /\ new.warnings = <<>>
                       /\ new.pending.route
                             = IF new.projects = <<>> THEN InboxPrimary
                               ELSE "GET /project/{id}/data"
                    \/ /\ new.pc = "done"
                       /\ new.outcome = "error"
                       /\ new.error.kind = "remote"
                       /\ new.error.ops
                             = <<"Failed to get tasks", "Failed to get projects">>
                       /\ new.error.cause \in Failures
                       /\ new.result = <<>>
                       /\ new.allTasks = <<>>
                       /\ new.pending = NoReq
                       /\ new.replies = <<>>
                       /\ new.inbox = "none"
              /\ (new # old /\ old.pc = "done") => new = IdleInv]_vars

\* C19 witness: get_overdue_tasks without projectId has ended on an HTTP
\* error to its project list request, with no result and nothing fetched
C19_Witness ==
    \E i \in Invocations :
        /\ inv[i].pc = "done"
        /\ inv[i].tool = "get_overdue_tasks"
        /\ ~inv[i].hasProject
        /\ inv[i].error.ops = <<"Failed to get tasks", "Failed to get projects">>
        /\ inv[i].error.cause = "http"
        /\ inv[i].result = <<>>
        /\ inv[i].replies = <<>>
        /\ inv[i].inbox = "none"

\* The answer to the sign-on request of invocation i is taken and the
\* invocation ends with an error
SignonFails(i) ==
    /\ inv'[i] # inv[i]
    /\ inv[i].pending.route = "POST /user/signon"
    /\ inv'[i].outcome = "error"

\* C20 as stated: after a failed sign-on the credential is absent and no
\* bearer header is installed
C20_AbsentAfterFailure ==
    [][\A i \in Invocations :
          SignonFails(i) => sessionId' = NoToken /\ authHeader' = NoToken]_vars

\* C20: a failed sign-on changes neither the credential nor the header, and
\* its invocation ends with the authentication error, having sent no project
\* or task request; the credential is then absent if this was the only
\* sign-on request sent so far; and every gateway call that starts in
\* password mode while the credential is absent sends a sign-on request
\* first, whatever failed before
C20_FailedSignonLeavesSession ==
    [][\A i \in Invocations :
          LET old == inv[i]
              new == inv'[i]
          IN  /\ SignonFails(i) =>
                    /\ sessionId' = sessionId
                    /\ authHeader' = authHeader
                    /\ signonRequests = 1 =>
                          sessionId' = NoToken /\ authHeader' = NoToken
                    /\ new.pc = "done"
                    /\ new.error.kind = "auth"
                    /\ new.pending = NoReq
                    /\ new.result = <<>>
                    /\ new.projects = <<>> /\ new.replies = <<>>
                    /\ new.inbox = "none"
              /\ (new # old /\ old.pc = "idle" /\ ~LacksRequired(new)
                    /\ PasswordMode /\ sessionId = NoToken) =>
                    /\ new.pending = [route |-> "POST /user/signon", bearer |-> NoToken]
                    /\ signonRequests' = signonRequests + 1
                    /\ sessionId' = NoToken]_vars

\* C20 witness: an invocation has ended on a sign-on that failed, the
\* credential is absent and no header is installed, and the next invocation
\* has sent the second sign-on request
C20_Witness ==
    \E i, j \in Invocations :
        /\ SignonFailure(inv[i])
        /\ inv[i].signons = 1
        /\ sessionId = NoToken
        /\ authHeader = NoToken
        /\ inv[j].pending = [route |-> "POST /user/signon", bearer |-> NoToken]
        /\ signonRequests = 2

(***************************************************************************)
(* Properties of the date classifier, checked under ClassifySpec.          *)
(***************************************************************************)

\* An incomplete task whose due date denotes an instant a Date can hold
Classifiable(task) ==
    /\ ~Truthy(task.completedTime)
    /\ task.dueDate.kind = "date"
    /\ InTimeRange(task.dueDate.day, task.dueDate.ms)

\* C1: a task with a completion timestamp, or without a due date, is
\* classified neither as due today nor as overdue, whatever its other fields
C1_NeverWhenCompletedOrNoDue ==
    (Truthy(ctask.completedTime) \/ ~Truthy(ctask.dueDate.kind)) =>
        /\ cres.doneToday => ~cres.today
        /\ cres.doneOver => ~cres.over

\* C1 witness: both classifiers ran on a completed task that would be
\* overdue if it were not completed
C1_Witness ==
    /\ cres.doneToday
    /\ cres.doneOver
    /\ ctask.completedTime = "set"
    /\ ctask.dueDate.kind = "date"
    /\ isTaskOverdue([ctask EXCEPT !.completedTime = "absent"], cnow, coff)

\* C2: for an incomplete task with a parseable due date, isTaskDueToday is
\* true exactly when the UTC day of (dueDate + 24 h) is the UTC day of the
\* reference instant, whether allDay is set or not
C2_DueTodayIffSameUtcDay ==
    (cres.doneToday /\ Classifiable(ctask)) =>
        (cres.today <=> (ctask.dueDate.day + 1 = cnow.day))

\* C2 witness: a timed task, due at noon of the previous day, is due today
C2_Witness ==
    /\ cres.doneToday
    /\ cres.today
    /\ ~ctask.allDay
    /\ ~Truthy(ctask.completedTime)
    /\ ctask.dueDate.ms # 0
    /\ ctask.dueDate.day + 1 = cnow.day

\* C3: for an incomplete task with a parseable due date, isTaskOverdue is
\* true exactly when, for an all-day task, the UTC day of (dueDate + 24 h)
\* is before the UTC day of the reference instant and, for a timed task, the
\* instant (dueDate + 24 h) is before the reference instant
C3_OverdueIffBefore ==
    (cres.doneOver /\ Classifiable(ctask)) =>
        (cres.over <=>
            IF ctask.allDay
            THEN ctask.dueDate.day + 1 < cnow.day
            ELSE \/ ctask.dueDate.day + 1 < cnow.day
                 \/ /\ ctask.dueDate.day + 1 = cnow.day
                    /\ ctask.dueDate.ms < cnow.ms)

Unparseable(task) ==
    /\ ~Truthy(task.completedTime)
    /\ task.dueDate.kind = "invalid"

\* What get_overdue_tasks and get_todays_tasks return of a fetched list
OverdueOf(tasks, now, tz) ==
    ListResult([tool |-> "get_overdue_tasks", tz |-> tz], tasks, now)

TodaysOf(tasks, now) ==
    ListResult([tool |-> "get_todays_tasks", tz |-> DefaultOffsetHours], tasks, now)

\* C16: an incomplete task whose due date is present and not parseable is
\* neither due today nor overdue, all-day or timed, and a fetched list that
\* holds it gives get_overdue_tasks and get_todays_tasks the result of the
\* list without it
C16_UnparseableNeverMatches ==
    Unparseable(ctask) =>
        /\ cres.doneToday => ~cres.today
        /\ cres.doneOver => ~cres.over
        /\ OverdueOf(<<RemoteT1, ctask, RemoteT3>>, cnow, coff)
              = OverdueOf(<<RemoteT1, RemoteT3>>, cnow, coff)
        /\ TodaysOf(<<RemoteT1, ctask, RemoteT3>>, cnow)
              = TodaysOf(<<RemoteT1, RemoteT3>>, cnow)

\* C16 witness: both classifiers ran on an incomplete all-day task whose due
\* date is not a date, and the list that holds it still gives the overdue
\* task t1
C16_Witness ==
    /\ Unparseable(ctask)
    /\ ctask.allDay
    /\ cres.doneToday
    /\ cres.doneOver
    /\ [k \in 1..Len(OverdueOf(<<RemoteT1, ctask, RemoteT3>>, cnow, coff)) |->
           OverdueOf(<<RemoteT1, ctask, RemoteT3>>, cnow, coff)[k].id] = <<"t1">>

\* The ids of the tasks of a list
IdsOf(tasks) == {tasks[k].id : k \in 1..Len(tasks)}

\* C21: an all-day task is never both due today and overdue at one
\* reference instant, and is never in both the result of get_todays_tasks
\* and the result of get_overdue_tasks over one fetched list at one instant
C21_AllDayExclusive ==
    ctask.allDay =>
        /\ (cres.doneToday /\ cres.doneOver) => ~(cres.today /\ cres.over)
        /\ "t" \notin IdsOf(TodaysOf(<<RemoteT1, ctask, RemoteT3>>, cnow))
                         \cap IdsOf(OverdueOf(<<RemoteT1, ctask, RemoteT3>>, cnow, coff))

\* C21 witness: both classifiers ran on an incomplete all-day task that is
\* due today: it is not overdue, and get_todays_tasks returns it while
\* get_overdue_tasks does not
C21_Witness ==
    /\ ctask.allDay
    /\ cres.doneToday
    /\ cres.doneOver
    /\ cres.today
    /\ ~cres.over
    /\ "t" \in IdsOf(TodaysOf(<<RemoteT1, ctask, RemoteT3>>, cnow))
    /\ "t" \notin IdsOf(OverdueOf(<<RemoteT1, ctask, RemoteT3>>, cnow, coff))

\* C22: a task that is overdue at one reference instant, and whose fields do
\* not change, is overdue at every later instant
C22_OverdueMonotone ==
    [][(/\ cres.doneOver
        /\ cres.over
        /\ cres'.doneOver
        /\ ctask' = ctask
        /\ ~DateLess(cnow', cnow)) => cres'.over]_vars

(***************************************************************************)
(* Properties of the display normalizer, checked under DisplaySpec.        *)
(***************************************************************************)

\* The label the priority table gives: None for 0 and for an absent
\* priority, Low, Medium, High for 1, 3, 5, and "Custom (n)" for any other n
TableLabel(priority) ==
    CASE ~priority.has    -> [label |-> "None", n |-> 0]
      [] priority.val = 0 -> [label |-> "None", n |-> 0]
      [] priority.val = 1 -> [label |-> "Low", n |-> 0]
      [] priority.val = 3 -> [label |-> "Medium", n |-> 0]
      [] priority.val = 5 -> [label |-> "High", n |-> 0]
      [] OTHER            -> [label |-> "Custom", n |-> priority.val]

\* C17: the normalizer labels every priority by the table, and every task a
\* list tool returns carries the label of its priority as priorityText
C17_PriorityLabelTotal ==
    /\ cres.once # <<>> =>
          cres.once[1].priorityText = TableLabel(ctask.priority)
    /\ \A k \in 1..Len(cres.listed) :
          /\ "priorityText" \in DOMAIN cres.listed[k]
          /\ cres.listed[k].priorityText = TableLabel(cres.listed[k].priority)

\* C17 witness: a task of priority -2 was normalized to "Custom (-2)", and
\* get_overdue_tasks returned it with that label
C17_Witness ==
    /\ ctask.priority = Priority(-2)
    /\ cres.once # <<>>
    /\ cres.once[1].priorityText = [label |-> "Custom", n |-> -2]
    /\ cres.tool = "get_overdue_tasks"
    /\ Len(cres.listed) >= 1
    /\ cres.listed[1].id = "t"
    /\ cres.listed[1].priorityText = [label |-> "Custom", n |-> -2]

\* C18: the normalizer on its own output gives that output again, and its
\* output has the fields of its input and priorityText, every field of the
\* input but priorityText with the value it had, the due date among them
C18_IdempotentPassThrough ==
    /\ cres.twice # <<>> => cres.twice[1] = cres.once[1]
    /\ cres.once # <<>> =>
          /\ DOMAIN cres.once[1] = DOMAIN ctask \cup {"priorityText"}
          /\ \A f \in DOMAIN ctask \ {"priorityText"} :
                cres.once[1][f] = ctask[f]

\* C18 witness: a task of priority 5 with a due date, which came labelled
\* "Low", was normalized twice: both outputs are labelled "High" and keep
\* the due date
C18_Witness ==
    /\ "priorityText" \in DOMAIN ctask
    /\ ctask.priority = Priority(5)
    /\ ctask.dueDate = DueAt(BaseDay - 1, 0)
    /\ cres.once # <<>>
    /\ cres.twice # <<>>
    /\ cres.once[1].priorityText = [label |-> "High", n |-> 0]
    /\ cres.twice[1].priorityText = [label |-> "High", n |-> 0]
    /\ cres.twice[1].dueDate = ctask.dueDate

====
